---- MODULE Spec2Model ----
(***************************************************************************)
(* A model of amd/src/ace_inline_code.js (filter_ace_inline): the          *)
(* resolution of the UI parameters of a <pre> element (getUiParameters),   *)
(* the classification of a sandbox response (diagnose), the assembly of    *)
(* the output text (combinedOutput) and the rendering of a response in     *)
(* the output display area (executeCode, displayTextOutput, cleanOutput).  *)
(*                                                                         *)
(* JavaScript strings are sequences of one-character strings.  JavaScript  *)
(* values of mixed type (the values of uiParameters) are tagged records    *)
(* [t, s, n]: t is the type, s the characters of a string, n the number.   *)
(***************************************************************************)
EXTENDS Integers, Sequences, FiniteSets, TLC

VARIABLES
    pc,                 \* the function or callback that ran last
    pre,                \* the attributes of the <pre> element: name -> string
    isInteractive,      \* which feature's defaultParams are used
    uiParameters,       \* the object returned by getUiParameters
    response,           \* the parsed sandbox response
    maxLen,             \* the maxLen argument of combinedOutput
    error,              \* the result of diagnose(response)
    text,               \* the text / langString pair handed to
    langString,         \*   displayTextOutput
    outputDisplayArea,  \* the output <div>: its text, css and next sibling
    requests,           \* ajax calls in flight
    pending,            \* calls suspended in an await of getLangString
    htmlOutput,         \* the htmlOutput constant of the callback that ran
    uploadFiles,        \* the module's map of uploaded files
    window,             \* the properties of window the module reads and sets
    calls,              \* the calls of initAceInteractive / initAceHighlighting
    document,           \* the elements of the page that carry a marker class
    changes,            \* the change handlers of the file input that have run
    race                \* history: whether the last click was made with a request
                        \*   in flight, and which callback of a request ran last

vars == <<pc, pre, isInteractive, uiParameters, response, maxLen, error,
          text, langString, outputDisplayArea, requests, pending, htmlOutput,
          uploadFiles, window, calls, document, changes, race>>

\* The state of the page outside one block's Try it! button.
pageVars == <<window, calls, document, changes>>

(***************************************************************************)
(* Bounds of the model.                                                    *)
(***************************************************************************)
MaxError == 7
MaxResult == 31

(***************************************************************************)
(* JavaScript values.                                                      *)
(***************************************************************************)
StrV(s) == [t |-> "str", s |-> s, n |-> 0]
IntV(n) == [t |-> "int", s |-> <<>>, n |-> n]
BoolV(b) == [t |-> "bool", s |-> <<>>, n |-> IF b THEN 1 ELSE 0]
Null == [t |-> "null", s |-> <<>>, n |-> 0]
NaN == [t |-> "nan", s |-> <<>>, n |-> 0]
EmptyObject == [t |-> "obj", s |-> <<>>, n |-> 0]

(***************************************************************************)
(* Program constants.                                                      *)
(***************************************************************************)
RESULT_SUCCESS == 15
MIN_WINDOW_LINES == 1
MAX_WINDOW_LINES == 50
MAX_OUTPUT_LENGTH == 30000

(***************************************************************************)
(* diagnose: the table of error conditions and its first-match scan.       *)
(***************************************************************************)
ERROR_RESPONSES ==
    << <<1, 0, "error_access_denied">>,
       <<2, 0, "error_unknown_language">>,
       <<3, 0, "error_access_denied">>,
       <<4, 0, "error_submission_limit_reached">>,
       <<5, 0, "error_sandbox_server_overload">>,
       <<0, 11, "">>,
       <<0, 12, "">>,
       <<0, 13, "error_timeout">>,
       <<0, RESULT_SUCCESS, "">>,
       <<0, 17, "error_memory_limit">>,
       <<0, 21, "error_sandbox_server_overload">>,
       <<0, 30, "error_excessive_output">> >>

\* Mutation of rowMatches: the result column is compared for every row.
rowMatchesResultAlways(row, resp) ==
    row[1] = resp.error /\ resp.result = row[2]

\* Mutation of rowMatches: the result column is never compared.
rowMatchesErrorOnly(row, resp) ==
    row[1] = resp.error

rowMatches(row, resp) ==
    row[1] = resp.error /\ (resp.error # 0 \/ resp.result = row[2])

RECURSIVE diagnoseFrom(_, _)
diagnoseFrom(resp, i) ==
    IF i > Len(ERROR_RESPONSES) THEN "error_unknown_runtime"
    ELSE IF rowMatches(ERROR_RESPONSES[i], resp) THEN ERROR_RESPONSES[i][3]
    ELSE diagnoseFrom(resp, i + 1)

diagnose(resp) == diagnoseFrom(resp, 1)

(***************************************************************************)
(* Values of the variables a specification does not use.                   *)
(***************************************************************************)
NoResponse ==
    [error |-> 0, result |-> 0, cmpinfo |-> <<>>, output |-> <<>>, stderr |-> <<>>]
NoPre == <<>>
NoParameters == <<>>
HiddenArea ==
    [html |-> <<>>, backgroundColor |-> "#eff", border |-> "",
     marginBottom |-> "10px", next |-> <<>>, hasNext |-> FALSE,
     visible |-> FALSE]

\* window before the module has run: Ace not loaded, no flag, no hook.
NoWindow ==
    [ace |-> FALSE,
     ace_inline_code_interactive_done |-> FALSE,
     ace_inline_code_highlighting_done |-> FALSE,
     applyAceInteractive |-> FALSE,
     applyAceHighlighting |-> FALSE]

NoRace == [overlap |-> FALSE, last |-> ""]

IdlePage ==
    /\ race = NoRace
    /\ window = NoWindow
    /\ calls = <<>>
    /\ document = <<>>
    /\ changes = <<>>

(***************************************************************************)
(* Specification of diagnose: a response with any pair of codes arrives    *)
(* and is classified.                                                      *)
(***************************************************************************)
DiagResponses ==
    { [error |-> e, result |-> r, cmpinfo |-> <<>>, output |-> <<>>, stderr |-> <<>>] :
        e \in -1..MaxError, r \in -1..MaxResult }

InitDiagnose ==
    /\ pc = "start"
    /\ response \in DiagResponses
    /\ error = ""
    /\ pre = NoPre
    /\ isInteractive = TRUE
    /\ uiParameters = NoParameters
    /\ maxLen = IntV(MAX_OUTPUT_LENGTH)
    /\ text = <<>>
    /\ langString = ""
    /\ outputDisplayArea = HiddenArea
    /\ requests = <<>>
    /\ pending = <<>>
    /\ htmlOutput = FALSE
    /\ uploadFiles = <<>>
    /\ IdlePage

Diagnose ==
    /\ pc = "start"
    /\ error' = diagnose(response)
    /\ pc' = "diagnose"
    /\ UNCHANGED <<pre, isInteractive, uiParameters, response, maxLen, text,
                   langString, outputDisplayArea, requests, pending,
                   htmlOutput, uploadFiles>>
    /\ UNCHANGED <<pageVars, race>>

NextDiagnose == Diagnose

SpecDiagnose == InitDiagnose /\ [][NextDiagnose]_vars

\* C1: for every response whose error field is non-zero, diagnose ignores
\* the result field: error 1 and 3 give error_access_denied, 2 gives
\* error_unknown_language, 4 gives error_submission_limit_reached, 5 gives
\* error_sandbox_server_overload, every other non-zero error value gives
\* error_unknown_runtime, whatever the value of result.
C1_SandboxErrorIgnoresResult ==
    (pc = "diagnose" /\ response.error # 0) =>
        error = CASE response.error \in {1, 3} -> "error_access_denied"
                  [] response.error = 2 -> "error_unknown_language"
                  [] response.error = 4 -> "error_submission_limit_reached"
                  [] response.error = 5 -> "error_sandbox_server_overload"
                  [] OTHER -> "error_unknown_runtime"

C1_Witness ==
    /\ pc = "diagnose"
    /\ response.error = 3
    /\ response.result = 13
    /\ error = "error_access_denied"

\* C2: for every response with error = 0 the category is determined by
\* result alone: 11, 12 and 15 give the empty category, 13 gives
\* error_timeout, 17 error_memory_limit, 21 error_sandbox_server_overload,
\* 30 error_excessive_output, every other result error_unknown_runtime.
C2_ResultDeterminesCategory ==
    (pc = "diagnose" /\ response.error = 0) =>
        error = CASE response.result \in {11, 12, 15} -> ""
                  [] response.result = 13 -> "error_timeout"
                  [] response.result = 17 -> "error_memory_limit"
                  [] response.result = 21 -> "error_sandbox_server_overload"
                  [] response.result = 30 -> "error_excessive_output"
                  [] OTHER -> "error_unknown_runtime"

C2_Witness ==
    /\ pc = "diagnose"
    /\ response.error = 0
    /\ response.result = 0
    /\ error = "error_unknown_runtime"

(***************************************************************************)
(* String functions of JavaScript used by the program.                     *)
(***************************************************************************)
UpperCase ==
    <<"A", "B", "C", "D", "E", "F", "G", "H", "I", "J", "K", "L", "M",
      "N", "O", "P", "Q", "R", "S", "T", "U", "V", "W", "X", "Y", "Z">>
LowerCase ==
    <<"a", "b", "c", "d", "e", "f", "g", "h", "i", "j", "k", "l", "m",
      "n", "o", "p", "q", "r", "s", "t", "u", "v", "w", "x", "y", "z">>

toLowerCaseChar(c) ==
    IF \E i \in 1..26 : UpperCase[i] = c
    THEN LowerCase[CHOOSE i \in 1..26 : UpperCase[i] = c]
    ELSE c

toLowerCase(s) == [i \in 1..Len(s) |-> toLowerCaseChar(s[i])]

startsWith(s, p) == Len(s) >= Len(p) /\ SubSeq(s, 1, Len(p)) = p

\* The 1-based position of the first occurrence of p in s, 0 when none.
indexOf(s, p) ==
    LET hits == { i \in 1..(Len(s) - Len(p) + 1) : SubSeq(s, i, i + Len(p) - 1) = p }
    IN  IF hits = {} THEN 0 ELSE CHOOSE i \in hits : \A j \in hits : i <= j

\* String.prototype.replace with a string pattern: the first occurrence only.
replace(s, p, r) ==
    LET i == indexOf(s, p)
    IN  IF i = 0 THEN s
        ELSE SubSeq(s, 1, i - 1) \o r \o SubSeq(s, i + Len(p), Len(s))

\* String.prototype.split with a one-character separator.
RECURSIVE split(_, _)
split(s, sep) ==
    LET i == indexOf(s, <<sep>>)
    IN  IF i = 0 THEN <<s>>
        ELSE <<SubSeq(s, 1, i - 1)>> \o split(SubSeq(s, i + 1, Len(s)), sep)

\* String.prototype.substr(start, length) with start >= 0.
substr(s, start, length) ==
    LET from == IF start > Len(s) THEN Len(s) ELSE start
        count == IF length < 0 THEN 0
                 ELSE IF from + length > Len(s) THEN Len(s) - from ELSE length
    IN  SubSeq(s, from + 1, from + count)

WhiteSpace == {" ", "\t", "\n"}

Digits == <<"0", "1", "2", "3", "4", "5", "6", "7", "8", "9",
            "a", "b", "c", "d", "e", "f">>

\* The value of c as a digit of the given radix, -1 when it is none.
digitValue(c, radix) ==
    LET lc == toLowerCaseChar(c)
        hits == { i \in 1..radix : Digits[i] = lc }
    IN  IF hits = {} THEN -1 ELSE (CHOOSE i \in hits : TRUE) - 1

RECURSIVE skipWhiteSpace(_)
skipWhiteSpace(s) ==
    IF s # <<>> /\ Head(s) \in WhiteSpace THEN skipWhiteSpace(Tail(s)) ELSE s

\* The number denoted by the longest prefix of s made of digits, as a pair
\* <<number of digits, value>>.
RECURSIVE parseDigits(_, _, _, _)
parseDigits(s, radix, count, acc) ==
    IF s # <<>> /\ digitValue(Head(s), radix) >= 0
    THEN parseDigits(Tail(s), radix, count + 1, acc * radix + digitValue(Head(s), radix))
    ELSE <<count, acc>>

\* parseInt(string) without a radix argument.
parseInt(s) ==
    LET t == skipWhiteSpace(s)
        negative == t # <<>> /\ Head(t) = "-"
        u == IF t # <<>> /\ Head(t) \in {"-", "+"} THEN Tail(t) ELSE t
        hex == Len(u) >= 2 /\ u[1] = "0" /\ u[2] \in {"x", "X"}
        d == IF hex THEN parseDigits(Tail(Tail(u)), 16, 0, 0)
             ELSE parseDigits(u, 10, 0, 0)
    IN  IF d[1] = 0 THEN NaN
        ELSE IntV(IF negative THEN 0 - d[2] ELSE d[2])

(***************************************************************************)
(* String literals of the program.                                         *)
(***************************************************************************)
S_ace_highlight_code ==
    <<"a", "c", "e", "_", "h", "i", "g", "h", "l", "i", "g", "h", "t", "_",
      "c", "o", "d", "e">>
S_ace_interactive_code ==
    <<"a", "c", "e", "_", "i", "n", "t", "e", "r", "a", "c", "t", "i", "v",
      "e", "_", "c", "o", "d", "e">>
S_python3 == <<"p", "y", "t", "h", "o", "n", "3">>
S_11pt == <<"1", "1", "p", "t">>
S_params ==
    <<"{", "\"", "c", "p", "u", "t", "i", "m", "e", "\"", ":", " ", "5", "}">>
S_language == <<"l", "a", "n", "g", "u", "a", "g", "e">>
S_none == <<"n", "o", "n", "e">>

\* The plugin configuration handed to initAceInteractive / initAceHighlighting.
config ==
    [button_label |-> <<"T", "r", "y", " ", "i", "t", "!">>,
     dark_theme_mode |-> 0]

defaultParamsHighlighting ==
    "class" :> StrV(S_ace_highlight_code) @@
    "lang" :> StrV(S_python3) @@
    "ace-lang" :> StrV(<<>>) @@
    "font-size" :> StrV(S_11pt) @@
    "start-line-number" :> Null @@
    "min-lines" :> IntV(MIN_WINDOW_LINES) @@
    "max-lines" :> IntV(MAX_WINDOW_LINES) @@
    "readonly" :> BoolV(TRUE) @@
    "dark-theme-mode" :> IntV(config.dark_theme_mode)

defaultParamsInteractive ==
    "class" :> StrV(S_ace_interactive_code) @@
    "lang" :> StrV(S_python3) @@
    "ace-lang" :> StrV(<<>>) @@
    "font-size" :> StrV(S_11pt) @@
    "hidden" :> BoolV(FALSE) @@
    "start-line-number" :> IntV(1) @@
    "button-name" :> StrV(config.button_label) @@
    "readonly" :> Null @@
    "stdin" :> StrV(<<>>) @@
    "stdin-taid" :> StrV(<<>>) @@
    "file-taids" :> EmptyObject @@
    "file-upload-id" :> Null @@
    "prefix" :> StrV(<<>>) @@
    "suffix" :> StrV(<<>>) @@
    "params" :> StrV(S_params) @@
    "code-mapper" :> Null @@
    "html-output" :> Null @@
    "min-lines" :> IntV(MIN_WINDOW_LINES) @@
    "max-lines" :> IntV(MAX_WINDOW_LINES) @@
    "max-output-length" :> IntV(MAX_OUTPUT_LENGTH) @@
    "dark-theme-mode" :> IntV(config.dark_theme_mode)

\* The defaultParams that applyAceInteractive / applyAceHighlighting pass on.
defaultParamsOf(interactive) ==
    IF interactive THEN defaultParamsInteractive ELSE defaultParamsHighlighting

(***************************************************************************)
(* getUiParameters.                                                        *)
(***************************************************************************)
\* Mutation of dataNameOf: the data- form is tried first.
dataNameOfPrefixedFirst(attributes, attrName) ==
    IF ("data-" \o attrName) \in DOMAIN attributes THEN "data-" \o attrName
    ELSE attrName

\* The name under which the attribute is looked up: the raw name when the
\* element has it, otherwise the name with data- as a prefix.
dataNameOf(attributes, attrName) ==
    IF attrName \in DOMAIN attributes THEN attrName ELSE "data-" \o attrName

\* Mutation of coerceValue: no special case for hidden.
coerceValueHiddenAsString(attrName, value) ==
    IF attrName = "start-line-number"
    THEN IF toLowerCase(value) = S_none THEN Null ELSE parseInt(value)
    ELSE IF attrName = "min-lines" \/ attrName = "max-lines"
    THEN parseInt(value)
    ELSE StrV(value)

\* Mutation of coerceValue: 'none' is compared without toLowerCase.
coerceValueCaseSensitive(attrName, value) ==
    IF attrName = "start-line-number"
    THEN IF value = S_none THEN Null ELSE parseInt(value)
    ELSE IF attrName = "min-lines" \/ attrName = "max-lines"
    THEN parseInt(value)
    ELSE IF attrName = "hidden"
    THEN BoolV(TRUE)
    ELSE StrV(value)

\* The value of uiParameters[attrName] when the attribute exists.
coerceValue(attrName, value) ==
    IF attrName = "start-line-number"
    THEN IF toLowerCase(value) = S_none THEN Null ELSE parseInt(value)
    ELSE IF attrName = "min-lines" \/ attrName = "max-lines"
    THEN parseInt(value)
    ELSE IF attrName = "hidden"
    THEN BoolV(TRUE)
    ELSE StrV(value)

\* One iteration of the loop over defaultParams.
resolveParameter(attributes, defaultParams, attrName) ==
    LET dataName == dataNameOf(attributes, attrName)
    IN  IF dataName \in DOMAIN attributes
        THEN coerceValue(attrName, attributes[dataName])
        ELSE defaultParams[attrName]

\* Mutation of resolveParameters: uiParameters[attrName] is assigned only
\* when the attribute exists.
resolveParametersPresentOnly(attributes, defaultParams) ==
    [attrName \in { k \in DOMAIN defaultParams :
                      dataNameOf(attributes, k) \in DOMAIN attributes } |->
        resolveParameter(attributes, defaultParams, attrName)]

\* The loop over defaultParams.
resolveParameters(attributes, defaultParams) ==
    [attrName \in DOMAIN defaultParams |->
        resolveParameter(attributes, defaultParams, attrName)]

\* Mutation of applyClassTokens: the first matching token wins.
RECURSIVE applyClassTokensFirstWins(_, _, _)
applyClassTokensFirstWins(ui, splitClass, i) ==
    IF i > Len(splitClass) THEN ui
    ELSE IF startsWith(splitClass[i], S_language)
    THEN ("lang" :> StrV(replace(splitClass[i], S_language \o <<"-">>, <<>>))) @@ ui
    ELSE applyClassTokensFirstWins(ui, splitClass, i + 1)

\* splitClass.forEach: every token that starts with 'language' assigns lang.
RECURSIVE applyClassTokens(_, _, _)
applyClassTokens(ui, splitClass, i) ==
    IF i > Len(splitClass) THEN ui
    ELSE applyClassTokens(
            IF startsWith(splitClass[i], S_language)
            THEN ("lang" :> StrV(replace(splitClass[i], S_language \o <<"-">>, <<>>))) @@ ui
            ELSE ui,
            splitClass, i + 1)

\* The outcome of a call that throws (uiParameters['class'] has no split).
TypeError == "TypeError" :> Null

getUiParameters(attributes, defaultParams) ==
    LET ui == resolveParameters(attributes, defaultParams)
    IN  IF "class" \notin DOMAIN ui \/ ui["class"].t # "str" THEN TypeError
        ELSE applyClassTokens(ui, split(ui["class"].s, " "), 1)

(***************************************************************************)
(* Specification of getUiParameters: applyAceAndBuildUi hands an element   *)
(* and the defaultParams of one of the two features to getUiParameters.    *)
(* The element is the marked PRE or the parent of a marked CODE, so no     *)
(* attribute of it is known to be there.                                   *)
(***************************************************************************)
MaxAttrs == 2
MaxClassParts == 3
MaxNumberParts == 2

\* All concatenations of at most n of the parts.
RECURSIVE Concats(_, _)
Concats(parts, n) ==
    IF n = 0 THEN {<<>>}
    ELSE LET shorter == Concats(parts, n - 1)
         IN  shorter \cup { p \o s : p \in parts, s \in shorter }

ClassParts ==
    { S_language \o <<"-", "c">>, S_language \o <<"d">>, <<" ">>, <<"\t">> }
ClassValues == Concats(ClassParts, MaxClassParts)

NumberParts ==
    { S_none, <<"N", "o", "N", "e">>, <<"3">>, <<"-">>, <<" ">>, <<"0", "x">>, <<"a">> }
NumberValues == Concats(NumberParts, MaxNumberParts)

AttrNames ==
    { "class", "data-class", "lang", "data-lang", "hidden", "data-hidden",
      "start-line-number", "data-start-line-number", "min-lines", "id" }

\* The attribute values of the elements of SpecUi: many class values.
AttrValues(name) ==
    CASE name = "class" -> ClassValues
      [] name = "data-class" -> { S_language \o <<"-", "c">> }
      [] name = "lang" -> { <<"c">> }
      [] name = "data-lang" -> { <<"h", "t", "m", "l">> }
      [] name = "hidden" -> { <<>>, <<"n", "o">> }
      [] name = "data-hidden" -> { <<>> }
      [] name = "start-line-number" -> { <<"N", "O", "N", "E">>, <<"3">> }
      [] name = "data-start-line-number" -> { <<"3">> }
      [] name = "min-lines" -> { <<"x">> }
      [] OTHER -> { <<"x">> }

\* The attribute values of the elements of SpecNumber: many numeric values.
NumberAttrValues(name) ==
    CASE name = "start-line-number" -> NumberValues
      [] name = "data-start-line-number" -> { <<"N", "o", "n", "E">>, <<"3">>, <<"-">> }
      [] name = "class" -> { S_language \o <<"-", "c">> }
      [] OTHER -> { <<"x">> }

\* The attribute maps whose names are exactly those of the set names.
RECURSIVE AttributesOver(_, _)
AttributesOver(names, numeric) ==
    IF names = {} THEN { <<>> }
    ELSE LET a == CHOOSE a \in names : TRUE
         IN  { (a :> v) @@ rest :
                 v \in IF numeric THEN NumberAttrValues(a) ELSE AttrValues(a),
                 rest \in AttributesOver(names \ {a}, numeric) }

\* The elements handed to getUiParameters: at most MaxAttrs attributes.
PreElements(numeric) ==
    UNION { AttributesOver(names, numeric) :
              names \in { n \in SUBSET AttrNames : Cardinality(n) <= MaxAttrs } }

InitUi ==
    /\ pc = "start"
    /\ pre \in PreElements(FALSE)
    /\ isInteractive \in BOOLEAN
    /\ uiParameters = NoParameters
    /\ response = NoResponse
    /\ maxLen = IntV(MAX_OUTPUT_LENGTH)
    /\ error = ""
    /\ text = <<>>
    /\ langString = ""
    /\ outputDisplayArea = HiddenArea
    /\ requests = <<>>
    /\ pending = <<>>
    /\ htmlOutput = FALSE
    /\ uploadFiles = <<>>
    /\ IdlePage

GetUiParameters ==
    /\ pc = "start"
    /\ uiParameters' = getUiParameters(pre, defaultParamsOf(isInteractive))
    /\ pc' = "getUiParameters"
    /\ UNCHANGED <<pre, isInteractive, response, maxLen, error, text,
                   langString, outputDisplayArea, requests, pending,
                   htmlOutput, uploadFiles>>
    /\ UNCHANGED <<pageVars, race>>

NextUi == GetUiParameters

SpecUi == InitUi /\ [][NextUi]_vars

\* The attribute an override for the key comes from.
HasOverride(key) == key \in DOMAIN pre \/ ("data-" \o key) \in DOMAIN pre
Override(key) == IF key \in DOMAIN pre THEN pre[key] ELSE pre["data-" \o key]

\* C3: getUiParameters never fails and returns a configuration that has a
\* value for exactly the keys of the defaults, for every attribute source
\* and both features' defaults.
C3_EveryDefaultKeyResolved ==
    pc = "getUiParameters" =>
        /\ uiParameters # TypeError
        /\ DOMAIN uiParameters = DOMAIN defaultParamsOf(isInteractive)

C3_Witness ==
    /\ pc = "getUiParameters"
    /\ DOMAIN pre = {"id"}
    /\ isInteractive
    /\ "file-upload-id" \in DOMAIN uiParameters
    /\ uiParameters["file-upload-id"] = Null

(***************************************************************************)
(* Specification of getUiParameters over elements with many forms of the   *)
(* start-line-number attribute.                                            *)
(***************************************************************************)
InitNumber ==
    /\ pc = "start"
    /\ pre \in PreElements(TRUE)
    /\ isInteractive \in BOOLEAN
    /\ uiParameters = NoParameters
    /\ response = NoResponse
    /\ maxLen = IntV(MAX_OUTPUT_LENGTH)
    /\ error = ""
    /\ text = <<>>
    /\ langString = ""
    /\ outputDisplayArea = HiddenArea
    /\ requests = <<>>
    /\ pending = <<>>
    /\ htmlOutput = FALSE
    /\ uploadFiles = <<>>
    /\ IdlePage

NextNumber == GetUiParameters

SpecNumber == InitNumber /\ [][NextNumber]_vars

\* The tokens of the resolved class that begin with 'language', as the
\* positions in split(' ').
ClassTokens == split(uiParameters["class"].s, " ")
LanguageTokens == { i \in 1..Len(ClassTokens) : startsWith(ClassTokens[i], S_language) }

\* What the claims call the value taken from the attributes or the defaults.
FromAttributesOrDefaults(key) ==
    IF HasOverride(key) THEN coerceValue(key, Override(key))
    ELSE defaultParamsOf(isInteractive)[key]

\* C4 as stated: for every key K of the defaults the resolved value is taken
\* from attribute K when the source has it, otherwise from data-K when the
\* source has that, otherwise it is defaults[K] unchanged.
C4_Original ==
    pc = "getUiParameters" =>
        \A key \in DOMAIN defaultParamsOf(isInteractive) :
            uiParameters[key] = FromAttributesOrDefaults(key)

\* C4 (amended): the same for every key other than lang, and for lang when
\* no space-separated token of the resolved class begins with 'language'.
C4_ResolvedFromAttributeOrDefault ==
    pc = "getUiParameters" =>
        \A key \in DOMAIN defaultParamsOf(isInteractive) :
            (key # "lang" \/ LanguageTokens = {}) =>
                uiParameters[key] = FromAttributesOrDefaults(key)

C4_Witness ==
    /\ pc = "getUiParameters"
    /\ DOMAIN pre = {"lang", "data-lang"}
    /\ pre["lang"] = <<"c">>
    /\ pre["data-lang"] = <<"h", "t", "m", "l">>
    /\ uiParameters["lang"] = StrV(<<"c">>)
    /\ uiParameters["font-size"] = StrV(S_11pt)

\* C5 as stated: when the source declares the attribute hidden with any
\* value the resolved hidden is true, and when the attribute hidden is
\* absent the resolved hidden equals the default.
C5_Original ==
    (pc = "getUiParameters" /\ isInteractive) =>
        /\ "hidden" \in DOMAIN pre => uiParameters["hidden"] = BoolV(TRUE)
        /\ "hidden" \notin DOMAIN pre =>
              uiParameters["hidden"] = defaultParamsInteractive["hidden"]

\* C5 (amended): when the source declares hidden or data-hidden with any
\* value the resolved hidden is true, and when both are absent the resolved
\* hidden equals the default.
C5_HiddenPresenceIsTrue ==
    (pc = "getUiParameters" /\ isInteractive) =>
        /\ ("hidden" \in DOMAIN pre \/ "data-hidden" \in DOMAIN pre) =>
              uiParameters["hidden"] = BoolV(TRUE)
        /\ ("hidden" \notin DOMAIN pre /\ "data-hidden" \notin DOMAIN pre) =>
              uiParameters["hidden"] = defaultParamsInteractive["hidden"]

C5_Witness ==
    /\ pc = "getUiParameters"
    /\ isInteractive
    /\ "hidden" \in DOMAIN pre
    /\ pre["hidden"] = <<>>
    /\ uiParameters["hidden"] = BoolV(TRUE)

\* C6 as stated: a start-line-number override equal to 'none' in any letter
\* case resolves to null, any other override resolves to an integer, the
\* one parsed from the string ('3' gives 3).
C6_Original ==
    (pc = "getUiParameters" /\ HasOverride("start-line-number")) =>
        LET value == Override("start-line-number")
            resolved == uiParameters["start-line-number"]
        IN  /\ toLowerCase(value) = S_none => resolved = Null
            /\ toLowerCase(value) # S_none =>
                  resolved.t = "int" /\ resolved = parseInt(value)
            /\ value = <<"3">> => resolved = IntV(3)

\* C6 (amended): 'none' in any letter case resolves to null; any other
\* override resolves to the result of parseInt, the integer denoted by the
\* leading digits of the string ('3' gives 3) or NaN when there are none,
\* and never to the string itself.
C6_StartLineNumberCoerced ==
    (pc = "getUiParameters" /\ HasOverride("start-line-number")) =>
        LET value == Override("start-line-number")
            resolved == uiParameters["start-line-number"]
        IN  /\ toLowerCase(value) = S_none => resolved = Null
            /\ toLowerCase(value) # S_none =>
                  /\ resolved.t \in {"int", "nan"}
                  /\ resolved = parseInt(value)
                  /\ resolved.t = "nan" <=>
                        LET t == skipWhiteSpace(value)
                            u == IF t # <<>> /\ Head(t) \in {"-", "+"} THEN Tail(t) ELSE t
                        IN  \/ u = <<>>
                            \/ digitValue(Head(u), 10) < 0
                            \/ /\ Len(u) >= 2 /\ u[1] = "0" /\ u[2] \in {"x", "X"}
                               /\ (Len(u) = 2 \/ digitValue(u[3], 16) < 0)
            /\ value = <<"3">> => resolved = IntV(3)
            /\ value = <<"-", "3">> => resolved = IntV(-3)
            /\ value = <<"3", "a">> => resolved = IntV(3)

C6_Witness ==
    /\ pc = "getUiParameters"
    /\ "start-line-number" \in DOMAIN pre
    /\ pre["start-line-number"] = <<"N", "o", "N", "e">>
    /\ uiParameters["start-line-number"] = Null

\* The tokens of s separated by white space.
RECURSIVE WhiteSpaceTokens(_, _)
WhiteSpaceTokens(s, token) ==
    IF s = <<>> THEN (IF token = <<>> THEN <<>> ELSE <<token>>)
    ELSE IF Head(s) \in WhiteSpace
    THEN (IF token = <<>> THEN <<>> ELSE <<token>>) \o WhiteSpaceTokens(Tail(s), <<>>)
    ELSE WhiteSpaceTokens(Tail(s), Append(token, Head(s)))

\* C7 as stated: lang is the remainder after the prefix 'language' of the
\* last whitespace-separated token of the resolved class that begins with
\* that prefix, and the value resolved from attributes or defaults when no
\* token does.
C7_Original ==
    pc = "getUiParameters" =>
        LET tokens == WhiteSpaceTokens(uiParameters["class"].s, <<>>)
            matching == { i \in 1..Len(tokens) : startsWith(tokens[i], S_language) }
        IN  IF matching = {}
            THEN uiParameters["lang"] = FromAttributesOrDefaults("lang")
            ELSE LET last == CHOOSE i \in matching : \A j \in matching : j <= i
                 IN  uiParameters["lang"] =
                        StrV(SubSeq(tokens[last], Len(S_language) + 1, Len(tokens[last])))

\* C7 (amended): lang is the last token of the resolved class, split at
\* single spaces, that begins with 'language', with its first occurrence of
\* 'language-' removed (the token as a whole when it has none), and the
\* value resolved from attributes or defaults when no token begins so.
C7_LangFromLastLanguageToken ==
    pc = "getUiParameters" =>
        IF LanguageTokens = {}
        THEN uiParameters["lang"] = FromAttributesOrDefaults("lang")
        ELSE LET last == CHOOSE i \in LanguageTokens : \A j \in LanguageTokens : j <= i
                 token == ClassTokens[last]
                 at == indexOf(token, S_language \o <<"-">>)
             IN  uiParameters["lang"] =
                    StrV(IF at = 0 THEN token
                         ELSE SubSeq(token, 1, at - 1) \o
                              SubSeq(token, at + Len(S_language) + 1, Len(token)))

C7_Witness ==
    /\ pc = "getUiParameters"
    /\ "class" \in DOMAIN pre
    /\ pre["class"] = S_language \o <<"-", "c", " ">> \o S_language \o <<"d">>
    /\ uiParameters["lang"] = StrV(S_language \o <<"d">>)

(***************************************************************************)
(* combinedOutput.                                                         *)
(***************************************************************************)
S_truncated ==
    <<".", ".", ".", " ", "(", "t", "r", "u", "n", "c", "a", "t", "e", "d",
      ")">>

\* The decimal digits of a number that is not negative.
RECURSIVE digitsOf(_)
digitsOf(n) ==
    IF n < 10 THEN <<Digits[n + 1]>>
    ELSE Append(digitsOf(n \div 10), Digits[(n % 10) + 1])

\* The string an integer converts to in a concatenation.
numberToString(n) == IF n < 0 THEN <<"-">> \o digitsOf(0 - n) ELSE digitsOf(n)

RECURSIVE trimEnd(_)
trimEnd(s) ==
    IF s # <<>> /\ s[Len(s)] \in WhiteSpace THEN trimEnd(SubSeq(s, 1, Len(s) - 1)) ELSE s

\* The number a value converts to in a comparison with a number or as the
\* length argument of substr.  A string converts as a whole: white space
\* around it is dropped, the empty string is 0, an optionally signed run of
\* decimal digits is that integer, and any other string of the model's
\* alphabet is NaN.
toNumber(value) ==
    IF value.t \in {"int", "nan"} THEN value
    ELSE IF value.t = "bool" THEN IntV(value.n)
    ELSE IF value.t = "null" THEN IntV(0)
    ELSE IF value.t # "str" THEN NaN
    ELSE LET t == trimEnd(skipWhiteSpace(value.s))
             negative == t # <<>> /\ Head(t) = "-"
             u == IF t # <<>> /\ Head(t) \in {"-", "+"} THEN Tail(t) ELSE t
             d == parseDigits(u, 10, 0, 0)
         IN  IF t = <<>> THEN IntV(0)
             ELSE IF u = <<>> \/ d[1] # Len(u) THEN NaN
             ELSE IntV(IF negative THEN 0 - d[2] ELSE d[2])

\* Mutation of limit: a string of exactly maxLen characters is truncated.
limitStrict(s, max) ==
    LET n == toNumber(max)
    IN  IF n.t = "int" /\ Len(s) < n.n THEN s
        ELSE substr(s, 0, IF n.t = "int" THEN n.n ELSE 0) \o S_truncated

\* The arrow function limit of combinedOutput.
limit(s, max) ==
    LET n == toNumber(max)
    IN  IF n.t = "int" /\ Len(s) <= n.n THEN s
        ELSE substr(s, 0, IF n.t = "int" THEN n.n ELSE 0) \o S_truncated

combinedOutput(resp, max) ==
    resp.cmpinfo \o limit(resp.output, max) \o limit(resp.stderr, max)

(***************************************************************************)
(* Specification of combinedOutput: a response with any output and stderr  *)
(* and any limit.  The limit is the default number or the string of a      *)
(* max-output-length attribute; numbers other than the default are limits  *)
(* a caller could pass.                                                    *)
(***************************************************************************)
MaxStrLen == 3
MaxLimit == 2

\* The strings over the alphabet of at most n characters.
RECURSIVE StringsUpTo(_, _)
StringsUpTo(alphabet, n) ==
    IF n = 0 THEN {<<>>}
    ELSE LET shorter == StringsUpTo(alphabet, n - 1)
         IN  shorter \cup { <<c>> \o s : c \in alphabet, s \in shorter }

OutputResponses ==
    { [error |-> 0, result |-> RESULT_SUCCESS, cmpinfo |-> c, output |-> o, stderr |-> e] :
        c \in { <<>>, <<"c", "c", "c", "c">> },
        o \in StringsUpTo({"a", "b"}, MaxStrLen),
        e \in StringsUpTo({"a", "b"}, MaxStrLen) }

Limits ==
    { IntV(MAX_OUTPUT_LENGTH) } \cup
    { IntV(n) : n \in 0..MaxLimit } \cup
    { StrV(numberToString(n)) : n \in 0..MaxLimit }

InitOutput ==
    /\ pc = "start"
    /\ response \in OutputResponses
    /\ maxLen \in Limits
    /\ text = <<>>
    /\ pre = NoPre
    /\ isInteractive = TRUE
    /\ uiParameters = NoParameters
    /\ error = ""
    /\ langString = ""
    /\ outputDisplayArea = HiddenArea
    /\ requests = <<>>
    /\ pending = <<>>
    /\ htmlOutput = FALSE
    /\ uploadFiles = <<>>
    /\ IdlePage

CombinedOutput ==
    /\ pc = "start"
    /\ text' = combinedOutput(response, maxLen)
    /\ pc' = "combinedOutput"
    /\ UNCHANGED <<pre, isInteractive, uiParameters, response, maxLen, error,
                   langString, outputDisplayArea, requests, pending,
                   htmlOutput, uploadFiles>>
    /\ UNCHANGED <<pageVars, race>>

NextOutput == CombinedOutput

SpecOutput == InitOutput /\ [][NextOutput]_vars

\* The number of characters a limit allows.
LimitOf(max) ==
    IF max.t = "int" THEN max.n
    ELSE CHOOSE n \in 0..MaxLimit : numberToString(n) = max.s

\* s cut to its first n characters with the marker, or s when it fits.
Truncated(s, n) == IF Len(s) <= n THEN s ELSE SubSeq(s, 1, n) \o S_truncated

\* C8: the truncation returns s unchanged when length(s) <= maxLen and
\* otherwise the first maxLen characters of s followed by '... (truncated)',
\* of length maxLen + length('... (truncated)'); output and stderr are
\* truncated independently and cmpinfo is never truncated.
C8_TruncationPerField ==
    pc = "combinedOutput" =>
        LET n == LimitOf(maxLen)
            lengthOf(s) == IF Len(s) <= n THEN Len(s) ELSE n + Len(S_truncated)
        IN  /\ text = response.cmpinfo \o Truncated(response.output, n)
                        \o Truncated(response.stderr, n)
            /\ Len(text) = Len(response.cmpinfo) + lengthOf(response.output)
                             + lengthOf(response.stderr)
            /\ SubSeq(text, 1, Len(response.cmpinfo)) = response.cmpinfo

C8_Witness ==
    /\ pc = "combinedOutput"
    /\ maxLen = StrV(<<"2">>)
    /\ response.cmpinfo = <<"c", "c", "c", "c">>
    /\ response.output = <<"a", "b", "a">>
    /\ response.stderr = <<"b", "a">>
    /\ text = <<"c", "c", "c", "c", "a", "b">> \o S_truncated \o <<"b", "a">>

(***************************************************************************)
(* The Try it! button of one block: the click handler of addUi with        *)
(* handleButtonClick and executeCode, the done and fail callbacks of the   *)
(* ajax call, displayTextOutput and cleanOutput.                           *)
(***************************************************************************)
S_markup == <<"m", "a", "r", "k", "u", "p">>
S_html == <<"h", "t", "m", "l">>
S_printOpen == <<"p", "r", "i", "n", "t", "(", "'", "'", "'">>
S_printClose == <<"'", "'", "'", ")">>
S_stars == <<"*", "*", "*">>
S_sandboxErrorCode ==
    <<"(", "S", "a", "n", "d", "b", "o", "x", " ", "e", "r", "r", "o", "r",
      " ", "c", "o", "d", "e", " ">>
S_runResult ==
    <<"(", "R", "u", "n", " ", "r", "e", "s", "u", "l", "t", ":", " ">>

Undefined == [t |-> "undefined", s |-> <<>>, n |-> 0]

\* A property of uiParameters that may never have been assigned.
Get(ui, key) == IF key \in DOMAIN ui THEN ui[key] ELSE Undefined

\* The assignment ui[key] = value.
Put(ui, key, value) == (key :> value) @@ ui

\* The conversion of a value to a boolean in a condition.
Truthy(value) ==
    CASE value.t = "str" -> value.s # <<>>
      [] value.t = "int" -> value.n # 0
      [] value.t = "bool" -> value.n = 1
      [] value.t = "obj" -> TRUE
      [] OTHER -> FALSE

escapeHtmlChar(c) ==
    CASE c = "&" -> <<"&", "a", "m", "p", ";">>
      [] c = "<" -> <<"&", "l", "t", ";">>
      [] c = ">" -> <<"&", "g", "t", ";">>
      [] c = "\"" -> <<"&", "q", "u", "o", "t", ";">>
      [] c = "'" -> <<"&", "#", "0", "3", "9", ";">>
      [] OTHER -> <<c>>

RECURSIVE escapeHtml(_)
escapeHtml(s) ==
    IF s = <<>> THEN <<>> ELSE escapeHtmlChar(Head(s)) \o escapeHtml(Tail(s))

\* The string str.get_string resolves to for a language string of the
\* plugin: one unit of text named by its key.
getString(langStringName) == <<langStringName>>

\* The function named by the code-mapper parameter, applied to the code.
applyCodeMapper(code) == <<"mapFunc", "(">> \o code \o <<")">>

cleanOutput(area) ==
    [area EXCEPT !.html = <<>>,
                 !.next = IF area.next # <<>> THEN Tail(area.next) ELSE area.next,
                 !.backgroundColor = "#eff",
                 !.marginBottom = "10px"]

\* Mutation of getStdin: an element without a value gives '' instead of null.
getStdinNeverNull(ui, elementValue) ==
    IF Truthy(ui["stdin-taid"])
    THEN IF ~Truthy(elementValue) THEN StrV(<<>>) ELSE elementValue
    ELSE IF Truthy(ui["stdin"]) THEN ui["stdin"]
    ELSE StrV(<<>>)

\* elementValue is what $('#' + taid).val() returns.
getStdin(ui, elementValue) ==
    IF Truthy(ui["stdin-taid"])
    THEN IF ~Truthy(elementValue) THEN Null ELSE elementValue
    ELSE IF Truthy(ui["stdin"]) THEN ui["stdin"]
    ELSE StrV(<<>>)

\* The one file-taids text of the model, {"f": "t"}, and what JSON.parse
\* makes of it; JSON.parse throws for any other text of the model.
S_fileTaids ==
    <<"{", "\"", "f", "\"", ":", " ", "\"", "t", "\"", "}">>
parseJson(s) == IF s = S_fileTaids THEN "f" :> "t" ELSE "SyntaxError" :> "SyntaxError"
JsonSyntaxError == "SyntaxError" :> "SyntaxError"

\* $.isEmptyObject: no enumerable property.
isEmptyObject(value) == ~(value.t = "str" /\ value.s # <<>>)

FilesError == [t |-> "error", map |-> <<>>]
FilesBadId == [t |-> "bad_id", map |-> <<>>]

\* The promised value of getFiles: 'error', 'bad_id' or the JSON text of a
\* map from file name to contents, kept as the map.
getFiles(ui, uploaded, elementValue) ==
    LET taids == IF isEmptyObject(ui["file-taids"]) THEN <<>>
                 ELSE parseJson(ui["file-taids"].s)
        map == [filename \in DOMAIN taids |-> elementValue]
    IN  IF taids = JsonSyntaxError THEN FilesError
        ELSE IF DOMAIN taids # {} /\ ~Truthy(elementValue) THEN FilesBadId
        ELSE [t |-> "json", map |-> uploaded @@ map]

\* Mutation of displayTextOutput: the text is written without escapeHtml.
displayTextOutputUnescaped(newText, newLangString, area, waiting) ==
    IF newLangString = ""
    THEN [area |-> [area EXCEPT !.html = newText], pending |-> waiting]
    ELSE [area |-> area,
          pending |-> Append(waiting, [at |-> "displayTextOutput", text |-> newText,
                                       langString |-> newLangString])]

\* The synchronous part of displayTextOutput: the text is written at once
\* when there is no language string to wait for.
displayTextOutput(newText, newLangString, area, waiting) ==
    IF newLangString = ""
    THEN [area |-> [area EXCEPT !.html = escapeHtml(newText)], pending |-> waiting]
    ELSE [area |-> area,
          pending |-> Append(waiting, [at |-> "displayTextOutput", text |-> newText,
                                       langString |-> newLangString])]

\* executeCode: the ajax call with its arguments and the variables its
\* callbacks close over.
executeCode(code, ui) ==
    [sourcecode |-> code,
     language |-> ui["lang"],
     stdin |-> Get(ui, "stdin-parse"),
     files |-> Get(ui, "file-parse"),
     params |-> ui["params"],
     htmlOutput |-> Get(ui, "html-output") # Null,
     maxLen |-> ui["max-output-length"],
     text |-> <<>>,
     langString |-> ""]

(***************************************************************************)
(* Specification of the Try it! button of one interactive block.           *)
(***************************************************************************)
MaxRequests == 2
MaxPending == 1

\* The elements of the blocks: which parameters the author has set.
RunPreElements ==
    { <<>>,
      "html-output" :> <<"1">>,
      "max-output-length" :> <<"1">>,
      "lang" :> S_html @@ "stdin-taid" :> <<"t">>,
      "stdin-taid" :> <<"t">> @@ "max-output-length" :> <<"1">>,
      "file-taids" :> S_fileTaids,
      "lang" :> S_markup }

\* What the editor holds at a click and what the textarea named by a taid
\* holds: nothing (no such element, or an empty one) or a text.
Codes == { <<"x">> }
ElementValues == { Undefined, StrV(<<"v">>) }

\* The responses of the sandbox and the messages of a failed call.
RunStrings ==
    << [cmpinfo |-> <<>>, output |-> <<"b">>, stderr |-> <<>>],
       [cmpinfo |-> <<"c">>, output |-> <<"a", "<">>, stderr |-> <<"e", "&">>] >>
RunResponses ==
    { [error |-> c[1], result |-> c[2], cmpinfo |-> RunStrings[c[3]].cmpinfo,
       output |-> RunStrings[c[3]].output, stderr |-> RunStrings[c[3]].stderr] :
        c \in { <<0, RESULT_SUCCESS, 1>>, <<0, RESULT_SUCCESS, 2>>, <<0, 12, 2>>,
                <<0, 13, 1>>, <<0, 99, 1>>, <<5, 0, 2>>, <<7, 0, 1>> } }
FailMessages == { <<"m">> }

Remove(seq, i) == SubSeq(seq, 1, i - 1) \o SubSeq(seq, i + 1, Len(seq))

Init ==
    /\ pc = "addUi"
    /\ pre \in RunPreElements
    /\ isInteractive = TRUE
    /\ uiParameters = getUiParameters(pre, defaultParamsInteractive)
    /\ response = NoResponse
    /\ maxLen = IntV(MAX_OUTPUT_LENGTH)
    /\ error = ""
    /\ text = <<>>
    /\ langString = ""
    /\ outputDisplayArea = HiddenArea
    /\ requests = <<>>
    /\ pending = <<>>
    /\ htmlOutput = FALSE
    /\ uploadFiles = <<>>
    /\ IdlePage

\* Mutation of handleButtonClick: the output area is shown but not cleaned.
handleButtonClickNoClean(areaBefore, code, ui, uploaded, elementValue) ==
    LET area == [areaBefore EXCEPT !.visible = TRUE]
        mapped == IF Truthy(ui["code-mapper"]) THEN applyCodeMapper(code) ELSE code
        fullCode == ui["prefix"].s \o mapped \o ui["suffix"].s
        stdin == getStdin(ui, elementValue)
        files == getFiles(ui, uploaded, elementValue)
    IN  IF ui["lang"] = StrV(S_markup) \/ ui["lang"] = StrV(S_html)
        THEN [code |-> StrV(S_printOpen \o fullCode \o S_printClose),
              ui |-> Put(Put(Put(ui, "prev-lang", ui["lang"]), "html-output", BoolV(TRUE)),
                         "lang", StrV(S_python3)),
              area |-> [area EXCEPT !.marginBottom = "0px"]]
        ELSE IF stdin # Null /\ files # FilesBadId
        THEN [code |-> StrV(fullCode),
              ui |-> Put(Put(ui, "stdin-parse", stdin), "file-parse", files),
              area |-> area]
        ELSE [code |-> Null,
              ui |-> ui,
              area |-> [area EXCEPT !.border = "1px solid red",
                                    !.backgroundColor = "#faa"]]

\* handleButtonClick up to its return or its first await of getLangString:
\* the code it returns (null when it goes on to report an error), the
\* parameters as it leaves them and the output area.
handleButtonClick(areaBefore, code, ui, uploaded, elementValue) ==
    LET area == [cleanOutput(areaBefore) EXCEPT !.visible = TRUE]
        mapped == IF Truthy(ui["code-mapper"]) THEN applyCodeMapper(code) ELSE code
        fullCode == ui["prefix"].s \o mapped \o ui["suffix"].s
        stdin == getStdin(ui, elementValue)
        files == getFiles(ui, uploaded, elementValue)
    IN  IF ui["lang"] = StrV(S_markup) \/ ui["lang"] = StrV(S_html)
        THEN [code |-> StrV(S_printOpen \o fullCode \o S_printClose),
              ui |-> Put(Put(Put(ui, "prev-lang", ui["lang"]), "html-output", BoolV(TRUE)),
                         "lang", StrV(S_python3)),
              area |-> [area EXCEPT !.marginBottom = "0px"]]
        ELSE IF stdin # Null /\ files # FilesBadId
        THEN [code |-> StrV(fullCode),
              ui |-> Put(Put(ui, "stdin-parse", stdin), "file-parse", files),
              area |-> area]
        ELSE [code |-> Null,
              ui |-> ui,
              area |-> [area EXCEPT !.border = "1px solid red",
                                    !.backgroundColor = "#faa"]]

\* Mutation of Click: the language is not set back after executeCode.
ClickKeepsLanguage(code, elementValue) ==
    /\ \E clicked \in { handleButtonClick(outputDisplayArea, code, uiParameters,
                                          uploadFiles, elementValue) } :
           /\ outputDisplayArea' = clicked.area
           /\ IF clicked.code # Null
              THEN /\ Len(requests) < MaxRequests
                   /\ requests' = Append(requests, executeCode(clicked.code.s, clicked.ui))
                   /\ uiParameters' = clicked.ui
                   /\ UNCHANGED pending
              ELSE /\ Len(pending) < MaxPending
                   /\ pending' = Append(pending, [at |-> "handleButtonClick", text |-> <<>>,
                                                  langString |-> "error_user_params"])
                   /\ UNCHANGED <<requests, uiParameters>>
    /\ pc' = "click"
    /\ UNCHANGED <<pre, isInteractive, response, maxLen, error, text, langString,
                   htmlOutput, uploadFiles>>
    /\ UNCHANGED pageVars
    /\ race' = [race EXCEPT !.overlap = requests' # requests /\ requests # <<>>]

\* The click handler of the button: handleButtonClick and, when it returns
\* the code, executeCode and the return to the old language.  The awaits on
\* the way to executeCode are on settled promises, so nothing runs between.
Click(code, elementValue) ==
    /\ \E clicked \in { handleButtonClick(outputDisplayArea, code, uiParameters,
                                          uploadFiles, elementValue) } :
           /\ outputDisplayArea' = clicked.area
           /\ IF clicked.code # Null
              THEN /\ Len(requests) < MaxRequests
                   /\ requests' = Append(requests, executeCode(clicked.code.s, clicked.ui))
                   /\ uiParameters' =
                         Put(clicked.ui, "lang",
                             IF Truthy(Get(clicked.ui, "prev-lang"))
                             THEN clicked.ui["prev-lang"] ELSE clicked.ui["lang"])
                   /\ UNCHANGED pending
              ELSE /\ Len(pending) < MaxPending
                   /\ pending' = Append(pending, [at |-> "handleButtonClick", text |-> <<>>,
                                                  langString |-> "error_user_params"])
                   /\ UNCHANGED <<requests, uiParameters>>
    /\ pc' = "click"
    /\ UNCHANGED <<pre, isInteractive, response, maxLen, error, text, langString,
                   htmlOutput, uploadFiles>>
    /\ UNCHANGED pageVars
    /\ race' = [race EXCEPT !.overlap = requests' # requests /\ requests # <<>>]

\* handleButtonClick goes on after an await of getLangString: after the
\* first it waits for the second, after the second it writes the error.
HandleButtonClickResume(j) ==
    /\ j \in 1..Len(pending)
    /\ pending[j].at = "handleButtonClick"
    /\ pc' = "handleButtonClick"
    /\ IF pending[j].langString = "error_user_params"
       THEN /\ pending' =
                  [pending EXCEPT ![j] =
                      [at |-> "handleButtonClick",
                       text |-> S_stars \o <<" ">> \o getString("error_user_params")
                                  \o <<" ">> \o S_stars \o <<"\n">>,
                       langString |-> "error_element_unknown"]]
            /\ UNCHANGED outputDisplayArea
       ELSE /\ pending' = Remove(pending, j)
            /\ outputDisplayArea' =
                  [outputDisplayArea EXCEPT
                      !.html = escapeHtml(pending[j].text \o getString("error_element_unknown"))]
    /\ UNCHANGED <<pre, isInteractive, uiParameters, response, maxLen, error, text,
                   langString, requests, htmlOutput, uploadFiles>>
    /\ UNCHANGED <<pageVars, race>>

\* Mutation of doneCallback: the raw code is appended for every category.
doneCallbackSuffixAlways(call, r, areaBefore, waiting) ==
    LET cleaned == cleanOutput(areaBefore)
        diagnosis == diagnose(r)
        plain == ~call.htmlOutput \/ r.result # RESULT_SUCCESS
        extra ==
            (IF r.error = 0 THEN combinedOutput(r, call.maxLen) ELSE <<>>) \o
            (IF TRUE
             THEN IF r.error # 0
                  THEN S_sandboxErrorCode \o numberToString(r.error) \o <<")">>
                  ELSE S_runResult \o numberToString(r.result) \o <<")">>
             ELSE <<>>)
        newText ==
            IF diagnosis = ""
            THEN IF plain THEN call.text \o combinedOutput(r, call.maxLen) ELSE call.text
            ELSE call.text \o extra
        newLangString ==
            IF diagnosis = "" THEN call.langString ELSE call.langString \o diagnosis
        area ==
            IF diagnosis = ""
            THEN IF plain
                 THEN IF r.result # RESULT_SUCCESS
                      THEN [cleaned EXCEPT !.backgroundColor = "#ffd"]
                      ELSE cleaned
                 ELSE [cleaned EXCEPT !.marginBottom = "0px",
                                      !.next = <<r.output>> \o cleaned.next]
            ELSE [cleaned EXCEPT !.backgroundColor = "#ffd"]
        shown == displayTextOutput(newText, newLangString, area, waiting)
    IN  [area |-> shown.area, pending |-> shown.pending, error |-> diagnosis,
         text |-> newText, langString |-> newLangString]

\* The done callback of a call: the output area, the suspended calls and
\* the callback's variables when it returns.
doneCallback(call, r, areaBefore, waiting) ==
    LET cleaned == cleanOutput(areaBefore)
        diagnosis == diagnose(r)
        plain == ~call.htmlOutput \/ r.result # RESULT_SUCCESS
        extra ==
            (IF r.error = 0 THEN combinedOutput(r, call.maxLen) ELSE <<>>) \o
            (IF diagnosis = "error_unknown_runtime"
             THEN IF r.error # 0
                  THEN S_sandboxErrorCode \o numberToString(r.error) \o <<")">>
                  ELSE S_runResult \o numberToString(r.result) \o <<")">>
             ELSE <<>>)
        newText ==
            IF diagnosis = ""
            THEN IF plain THEN call.text \o combinedOutput(r, call.maxLen) ELSE call.text
            ELSE call.text \o extra
        newLangString ==
            IF diagnosis = "" THEN call.langString ELSE call.langString \o diagnosis
        area ==
            IF diagnosis = ""
            THEN IF plain
                 THEN IF r.result # RESULT_SUCCESS
                      THEN [cleaned EXCEPT !.backgroundColor = "#ffd"]
                      ELSE cleaned
                 ELSE [cleaned EXCEPT !.marginBottom = "0px",
                                      !.next = <<r.output>> \o cleaned.next]
            ELSE [cleaned EXCEPT !.backgroundColor = "#ffd"]
        shown == displayTextOutput(newText, newLangString, area, waiting)
    IN  [area |-> shown.area, pending |-> shown.pending, error |-> diagnosis,
         text |-> newText, langString |-> newLangString]

\* The ajax call answers the i-th call in flight with the response r.
Done(i, r) ==
    /\ i \in 1..Len(requests)
    /\ \E after \in { doneCallback(requests[i], r, outputDisplayArea, pending) } :
           /\ Len(after.pending) <= MaxPending
           /\ outputDisplayArea' = after.area
           /\ pending' = after.pending
           /\ error' = after.error
           /\ text' = after.text
           /\ langString' = after.langString
    /\ response' = r
    /\ maxLen' = requests[i].maxLen
    /\ htmlOutput' = requests[i].htmlOutput
    /\ requests' = Remove(requests, i)
    /\ pc' = "done"
    /\ UNCHANGED <<pre, isInteractive, uiParameters, uploadFiles>>
    /\ UNCHANGED pageVars
    /\ race' = [race EXCEPT !.last = "done"]

\* The fail callback of a call, with the message of the error.
failCallback(call, message, areaBefore, waiting) ==
    LET area == [cleanOutput(areaBefore) EXCEPT
                    !.border = "1px solid red", !.backgroundColor = "#faa"]
        newText == call.text \o message
        newLangString == call.langString \o "error_user_params"
        shown == displayTextOutput(newText, newLangString, area, waiting)
    IN  [area |-> shown.area, pending |-> shown.pending,
         text |-> newText, langString |-> newLangString]

\* The ajax call fails for the i-th call in flight.
Fail(i, message) ==
    /\ i \in 1..Len(requests)
    /\ \E after \in { failCallback(requests[i], message, outputDisplayArea, pending) } :
           /\ Len(after.pending) <= MaxPending
           /\ outputDisplayArea' = after.area
           /\ pending' = after.pending
           /\ text' = after.text
           /\ langString' = after.langString
    /\ maxLen' = requests[i].maxLen
    /\ htmlOutput' = requests[i].htmlOutput
    /\ requests' = Remove(requests, i)
    /\ pc' = "fail"
    /\ UNCHANGED <<pre, isInteractive, uiParameters, response, error, uploadFiles>>
    /\ UNCHANGED pageVars
    /\ race' = [race EXCEPT !.last = "fail"]

\* displayTextOutput goes on after its await of getLangString.
DisplayTextOutputResume(j) ==
    /\ j \in 1..Len(pending)
    /\ pending[j].at = "displayTextOutput"
    /\ outputDisplayArea' =
          [outputDisplayArea EXCEPT
              !.html = escapeHtml(S_stars \o <<" ">> \o getString(pending[j].langString)
                                    \o <<" ">> \o S_stars \o <<"\n">> \o pending[j].text)]
    /\ pending' = Remove(pending, j)
    /\ text' = pending[j].text
    /\ langString' = pending[j].langString
    /\ pc' = "displayTextOutput"
    /\ UNCHANGED <<pre, isInteractive, uiParameters, response, maxLen, error,
                   requests, htmlOutput, uploadFiles>>
    /\ UNCHANGED <<pageVars, race>>

Next ==
    \/ \E code \in Codes, elementValue \in ElementValues : Click(code, elementValue)
    \/ \E j \in 1..MaxPending : HandleButtonClickResume(j)
    \/ \E i \in 1..MaxRequests, r \in RunResponses : Done(i, r)
    \/ \E i \in 1..MaxRequests, message \in FailMessages : Fail(i, message)
    \/ \E j \in 1..MaxPending : DisplayTextOutputResume(j)

Spec == Init /\ [][Next]_vars

\* The text combinedOutput gives for the response of the done callback.
CombinedText ==
    response.cmpinfo \o Truncated(response.output, LimitOf(maxLen))
        \o Truncated(response.stderr, LimitOf(maxLen))

\* C9 as stated: whenever a response is classified with the empty category
\* the text in the output area is exactly cmpinfo + truncated(output) +
\* truncated(stderr), with no localized message in front of it.
C9_Original ==
    (pc = "done" /\ error = "") =>
        outputDisplayArea.html = escapeHtml(CombinedText)

\* C9 (amended): that is the text in the output area unless the call was
\* made with html-output set and the result is RESULT_SUCCESS; then the
\* text of the output area is empty and response.output is inserted as an
\* HTML block right after the output area.
C9_EmptyCategoryShowsCombinedOutput ==
    (pc = "done" /\ error = "") =>
        /\ langString = ""
        /\ IF htmlOutput /\ response.result = RESULT_SUCCESS
           THEN /\ outputDisplayArea.html = <<>>
                /\ outputDisplayArea.next # <<>>
                /\ Head(outputDisplayArea.next) = response.output
           ELSE outputDisplayArea.html = escapeHtml(CombinedText)

C9_Witness ==
    /\ pc = "done"
    /\ error = ""
    /\ response.result = 12
    /\ ~htmlOutput
    /\ maxLen = IntV(MAX_OUTPUT_LENGTH)
    /\ outputDisplayArea.html =
          <<"c", "a", "&", "l", "t", ";", "e", "&", "a", "m", "p", ";">>

\* The raw code that goes with an unknown runtime error.
RawCodeSuffix ==
    IF response.error # 0
    THEN S_sandboxErrorCode \o numberToString(response.error) \o <<")">>
    ELSE S_runResult \o numberToString(response.result) \o <<")">>

\* C10: whenever a response is classified with a non-empty category, the
\* text handed on for display is the combined output only when
\* response.error = 0, followed by the raw-code suffix if and only if the
\* category is error_unknown_runtime ('(Sandbox error code <error>)' when
\* response.error # 0, '(Run result: <result>)' otherwise), and it is
\* displayed under the language string of that category; what is presented
\* once the language string has arrived starts with '*** ', the localized
\* message and ' ***' on a line of its own, followed by that text.
C10_ErrorCategoryMessage ==
    /\ (pc = "done" /\ error # "") =>
          /\ langString = error
          /\ text = (IF response.error = 0 THEN CombinedText ELSE <<>>) \o
                    (IF error = "error_unknown_runtime" THEN RawCodeSuffix ELSE <<>>)
          /\ pending # <<>>
          /\ pending[Len(pending)] =
                [at |-> "displayTextOutput", text |-> text, langString |-> error]
          /\ outputDisplayArea.html = <<>>
    /\ pc = "displayTextOutput" =>
          outputDisplayArea.html =
              escapeHtml(S_stars \o <<" ">> \o getString(langString) \o <<" ">>
                             \o S_stars \o <<"\n">> \o text)

C10_Witness ==
    /\ pc = "displayTextOutput"
    /\ response.error = 0
    /\ response.result = 99
    /\ outputDisplayArea.html =
          S_stars \o <<" ", "error_unknown_runtime", " ">> \o S_stars
              \o <<"\n", "b">> \o S_runResult \o <<"9", "9", ")">>


\* A step is a click when it leaves pc at "click", the end of a callback
\* of the ajax call when it leaves pc at "done" or "fail".
ClickIssuesOneRequest ==
    /\ Len(requests') = Len(requests) + 1
    /\ SubSeq(requests', 1, Len(requests)) = requests

ClearedBeforeDispatch ==
    Len(requests') > Len(requests) =>
        /\ outputDisplayArea'.html = <<>>
        /\ outputDisplayArea'.next = <<>>
        /\ outputDisplayArea'.backgroundColor = "#eff"
        /\ outputDisplayArea'.visible

AtMostOneRendering ==
    /\ pc' \in {"done", "fail"} =>
          /\ Len(requests') = Len(requests) - 1
          /\ \/ pending' = pending
             \/ /\ Len(pending') = Len(pending) + 1
                /\ SubSeq(pending', 1, Len(pending)) = pending
                /\ pending'[Len(pending')].at = "displayTextOutput"
                /\ outputDisplayArea'.html = <<>>
    /\ pc' = "displayTextOutput" =>
          /\ Len(pending') = Len(pending) - 1
          /\ requests' = requests
    /\ pc' = "handleButtonClick" => requests' = requests

\* C11 as stated: every click on the run button issues exactly one sandbox
\* request, the output area is cleared before that request is dispatched,
\* and each dispatched request leads to at most one rendering of a result
\* (through the done or the fail callback, never both).
C11_Original ==
    [][/\ pc' = "click" => ClickIssuesOneRequest
       /\ ClearedBeforeDispatch
       /\ AtMostOneRendering]_vars

\* C11 (amended): every click issues at most one sandbox request: exactly
\* one when handleButtonClick returns the code, none when it returns null
\* (then the click goes on to report the parameter error); the output area
\* is cleared before the request is dispatched; each dispatched request
\* ends in one callback, which renders at once or hands one text on to be
\* rendered when its language string has arrived.
C11_ClickIssuesAtMostOneRequest ==
    [][/\ pc' = "click" =>
             \E code \in Codes, elementValue \in ElementValues :
                 \E clicked \in { handleButtonClick(outputDisplayArea, code, uiParameters,
                                                    uploadFiles, elementValue) } :
                     /\ outputDisplayArea' = clicked.area
                     /\ IF clicked.code # Null
                        THEN /\ ClickIssuesOneRequest
                             /\ requests'[Len(requests')].sourcecode = clicked.code.s
                             /\ pending' = pending
                        ELSE /\ requests' = requests
                             /\ Len(pending') = Len(pending) + 1
                             /\ pending'[Len(pending')].at = "handleButtonClick"
       /\ ClearedBeforeDispatch
       /\ AtMostOneRendering]_vars

\* A second click, made after a response has been rendered, has cleared the
\* output area and has its request in flight.
C11_Witness ==
    /\ pc = "click"
    /\ response # NoResponse
    /\ response.output = <<"b">>
    /\ Len(requests) = 1
    /\ outputDisplayArea.html = <<>>
    /\ outputDisplayArea.visible


\* The output area as the response that arrived last would leave an area
\* that held nothing before: its text, its colours and the HTML block
\* inserted after it.
LastOutcomeShown ==
    IF race.last = "done"
    THEN /\ outputDisplayArea.html =
              (IF error = ""
               THEN IF htmlOutput /\ response.result = RESULT_SUCCESS
                    THEN <<>> ELSE escapeHtml(CombinedText)
               ELSE escapeHtml(S_stars \o <<" ">> \o getString(error) \o <<" ">>
                                 \o S_stars \o <<"\n">>
                                 \o (IF response.error = 0 THEN CombinedText ELSE <<>>)
                                 \o (IF error = "error_unknown_runtime"
                                     THEN RawCodeSuffix ELSE <<>>)))
         /\ outputDisplayArea.next =
              (IF error = "" /\ htmlOutput /\ response.result = RESULT_SUCCESS
               THEN <<response.output>> ELSE <<>>)
         /\ outputDisplayArea.backgroundColor =
              (IF error = "" /\ response.result = RESULT_SUCCESS THEN "#eff" ELSE "#ffd")
         /\ outputDisplayArea.border = ""
    ELSE /\ \E message \in FailMessages :
              outputDisplayArea.html =
                  escapeHtml(S_stars \o <<" ">> \o getString("error_user_params")
                               \o <<" ">> \o S_stars \o <<"\n">> \o message)
         /\ outputDisplayArea.next = <<>>
         /\ outputDisplayArea.backgroundColor = "#faa"
         /\ outputDisplayArea.border = "1px solid red"

\* C12: when the run button of one block is clicked again before the
\* response to the previous click has arrived, then once both responses
\* and their language-string lookups have been processed the output area
\* shows the outcome of the response that arrived last and nothing (text,
\* colour, inserted HTML block) of the earlier one.
C12_LastResponseWins ==
    (race.overlap /\ race.last # "" /\ requests = <<>> /\ pending = <<>>) =>
        LastOutcomeShown


\* A taid of the parameters names an element without a value: stdin-taid
\* is set, or file-taids lists an id, and the element has no value.
TaidWithoutValue(ui, elementValue) ==
    /\ ~Truthy(elementValue)
    /\ \/ Truthy(ui["stdin-taid"])
       \/ /\ ui["file-taids"].t = "str"
          /\ ui["file-taids"].s # <<>>
          /\ parseJson(ui["file-taids"].s) # JsonSyntaxError

S_errorUserParams ==
    S_stars \o <<" ">> \o getString("error_user_params") \o <<" ">> \o S_stars
        \o <<"\n">> \o getString("error_element_unknown")

\* What the claim says of a click with the given code and element value,
\* where invalid tells whether the click is one of the claim's cases.
ClickChecksTaids(code, elementValue, invalid) ==
    LET returned == handleButtonClick(outputDisplayArea, code, uiParameters,
                                      uploadFiles, elementValue).code
    IN  /\ (returned = Null) <=> invalid
        /\ returned # Null => returned.t = "str"
        /\ invalid =>
              /\ requests' = requests
              /\ outputDisplayArea'.html = <<>>
              /\ outputDisplayArea'.border = "1px solid red"
              /\ outputDisplayArea'.backgroundColor = "#faa"
              /\ Len(pending') = Len(pending) + 1
              /\ pending'[Len(pending')].at = "handleButtonClick"
        /\ ~invalid => Len(requests') = Len(requests) + 1

\* The error is written when the two language strings have arrived.
ErrorUserParamsShown ==
    (pc' = "handleButtonClick" /\ Len(pending') < Len(pending)) =>
        outputDisplayArea'.html = escapeHtml(S_errorUserParams)

\* C13 as stated: for every click, if stdin-taid names an element that has
\* no value, or an id listed in file-taids names an element that has no
\* value, then no sandbox request is dispatched for that click and the
\* output area shows the error_user_params error; handleButtonClick returns
\* null in exactly these cases and the code string otherwise.
C13_Original ==
    [][/\ pc' = "click" =>
             \A code \in Codes, elementValue \in ElementValues :
                 Click(code, elementValue) =>
                     ClickChecksTaids(code, elementValue,
                                      TaidWithoutValue(uiParameters, elementValue))
       /\ ErrorUserParamsShown]_vars

\* C13 (amended): that holds for the blocks whose lang is neither 'html'
\* nor 'markup'; for a block whose lang is 'html' or 'markup'
\* handleButtonClick returns the code and the request is dispatched whatever
\* the taids name.
C13_InvalidTaidStopsRun ==
    [][/\ pc' = "click" =>
             \A code \in Codes, elementValue \in ElementValues :
                 Click(code, elementValue) =>
                     ClickChecksTaids(code, elementValue,
                         /\ TaidWithoutValue(uiParameters, elementValue)
                         /\ uiParameters["lang"] \notin {StrV(S_html), StrV(S_markup)})
       /\ ErrorUserParamsShown]_vars

C13_Witness ==
    /\ pc = "handleButtonClick"
    /\ pending = <<>>
    /\ requests = <<>>
    /\ response = NoResponse
    /\ Truthy(uiParameters["stdin-taid"])
    /\ outputDisplayArea.html = escapeHtml(S_errorUserParams)
    /\ outputDisplayArea.border = "1px solid red"


\* C16: for a block whose resolved lang is 'html' or 'markup', every click
\* dispatches its request with language 'python3' and the code wrapped as
\* print('''...'''), and when the click handler has finished the block's
\* lang is what it was before the click, for any number of successive
\* clicks.
C16_HtmlRunsAsPythonAndLangRestored ==
    [][(pc' = "click" /\ uiParameters["lang"] \in {StrV(S_html), StrV(S_markup)}) =>
          /\ Len(requests') = Len(requests) + 1
          /\ SubSeq(requests', 1, Len(requests)) = requests
          /\ requests'[Len(requests')].language = StrV(S_python3)
          /\ \E code \in Codes :
                requests'[Len(requests')].sourcecode =
                    S_printOpen \o uiParameters["prefix"].s
                        \o (IF Truthy(uiParameters["code-mapper"])
                            THEN applyCodeMapper(code) ELSE code)
                        \o uiParameters["suffix"].s \o S_printClose
          /\ uiParameters'["lang"] = uiParameters["lang"]]_vars

\* A later click on an html block, after an earlier one was answered.
C16_Witness ==
    /\ pc = "click"
    /\ response # NoResponse
    /\ uiParameters["lang"] = StrV(S_html)
    /\ Get(uiParameters, "prev-lang") = StrV(S_html)
    /\ requests # <<>>
    /\ requests[Len(requests)].language = StrV(S_python3)
    /\ requests[Len(requests)].sourcecode = S_printOpen \o <<"x">> \o S_printClose


(***************************************************************************)
(* Specification of the page: initAceInteractive / initAceHighlighting,    *)
(* the hooks they leave in window and applyAceAndBuildUi on the document.  *)
(***************************************************************************)
MaxCalls == 3
MaxElements == 2

S_aceInteractiveCode ==
    <<"a", "c", "e", "-", "i", "n", "t", "e", "r", "a", "c", "t", "i", "v", "e",
      "-", "c", "o", "d", "e">>
S_aceHighlightCode ==
    <<"a", "c", "e", "-", "h", "i", "g", "h", "l", "i", "g", "h", "t",
      "-", "c", "o", "d", "e">>

\* A node without a marker class and without editor (the parent of a PRE).
NoNode ==
    [nodeName |-> "DIV", attributes |-> <<>>, display |-> "", editors |-> 0,
     buttons |-> 0]

\* A marked PRE, and a PRE with a marked CODE child (as Markdown makes it).
PreElement(className, attributes) ==
    [nodeName |-> "PRE", attributes |-> ("class" :> className) @@ attributes,
     display |-> "", editors |-> 0, buttons |-> 0, parentNode |-> NoNode]
CodeElement(className, attributes) ==
    [nodeName |-> "CODE", attributes |-> ("class" :> className),
     display |-> "", editors |-> 0, buttons |-> 0,
     parentNode |-> [NoNode EXCEPT !.nodeName = "PRE", !.attributes = attributes]]

MarkedElements ==
    { PreElement(S_aceInteractiveCode, <<>>),
      PreElement(S_aceInteractiveCode, "hidden" :> <<>>),
      PreElement(S_aceHighlightCode, <<>>),
      CodeElement(S_aceInteractiveCode, <<>>) }

Documents ==
    UNION { [1..n -> MarkedElements] : n \in 1..MaxElements }

\* applyToPre: setUpAce attaches an editor (and addUi a button when the
\* block is interactive) unless the block is hidden; a hidden interactive
\* block gets the button alone; the PRE is hidden at the end.
applyToPre(node, interactive, ui) ==
    IF ~Truthy(Get(ui, "hidden"))
    THEN [node EXCEPT !.editors = @ + 1,
                      !.buttons = IF interactive THEN @ + 1 ELSE @,
                      !.display = "none"]
    ELSE IF interactive
    THEN [node EXCEPT !.buttons = @ + 1, !.display = "none"]
    ELSE [node EXCEPT !.display = "none"]

\* applyAceAndBuildUi on the elements of the document that carry the class.
applyAceAndBuildUi(root, interactive, defaultParams) ==
    LET className == IF interactive THEN S_aceInteractiveCode ELSE S_aceHighlightCode
    IN  [k \in DOMAIN root |->
            IF root[k].attributes["class"] # className THEN root[k]
            ELSE IF root[k].nodeName = "PRE" /\ root[k].display # "none"
            THEN applyToPre(root[k], interactive,
                            getUiParameters(root[k].attributes, defaultParams))
            ELSE IF root[k].nodeName = "CODE" /\ root[k].display # "none"
            THEN [root[k] EXCEPT !.parentNode =
                     applyToPre(root[k].parentNode, interactive,
                                getUiParameters(root[k].parentNode.attributes,
                                                defaultParams))]
            ELSE root[k]]

applyAceInteractive(root) == applyAceAndBuildUi(root, TRUE, defaultParamsInteractive)
applyAceHighlighting(root) == applyAceAndBuildUi(root, FALSE, defaultParamsHighlighting)

apply(root, interactive) ==
    IF interactive THEN applyAceInteractive(root) ELSE applyAceHighlighting(root)

runOnceDone(w, interactive) ==
    IF interactive THEN w.ace_inline_code_interactive_done
    ELSE w.ace_inline_code_highlighting_done

\* The initial application and the hook left in window.
applyAndHook(w, root, interactive) ==
    [window |-> IF interactive THEN [w EXCEPT !.applyAceInteractive = TRUE]
                ELSE [w EXCEPT !.applyAceHighlighting = TRUE],
     document |-> apply(root, interactive),
     at |-> "applied"]

\* Mutation of initAce: the application does not wait for window.ace.
initAceNoWait(w, root, interactive) ==
    IF runOnceDone(w, interactive)
    THEN [window |-> w, document |-> root, at |-> "returned"]
    ELSE applyAndHook(
             IF interactive THEN [w EXCEPT !.ace_inline_code_interactive_done = TRUE]
             ELSE [w EXCEPT !.ace_inline_code_highlighting_done = TRUE],
             root, interactive)

\* initAceInteractive / initAceHighlighting up to the first await or the
\* return: window, the document and where the call is.
initAce(w, root, interactive) ==
    IF runOnceDone(w, interactive)
    THEN [window |-> w, document |-> root, at |-> "returned"]
    ELSE LET flagged ==
                 IF interactive THEN [w EXCEPT !.ace_inline_code_interactive_done = TRUE]
                 ELSE [w EXCEPT !.ace_inline_code_highlighting_done = TRUE]
         IN  IF ~w.ace
             THEN [window |-> flagged, document |-> root, at |-> "wait"]
             ELSE applyAndHook(flagged, root, interactive)

InitPage ==
    /\ pc = "start"
    /\ pre = NoPre
    /\ isInteractive = TRUE
    /\ uiParameters = NoParameters
    /\ response = NoResponse
    /\ maxLen = IntV(MAX_OUTPUT_LENGTH)
    /\ error = ""
    /\ text = <<>>
    /\ langString = ""
    /\ outputDisplayArea = HiddenArea
    /\ requests = <<>>
    /\ pending = <<>>
    /\ htmlOutput = FALSE
    /\ uploadFiles = <<>>
    /\ race = NoRace
    /\ changes = <<>>
    /\ window = NoWindow
    /\ calls = <<>>
    /\ document \in Documents

runVars ==
    <<pre, isInteractive, uiParameters, response, maxLen, error, text, langString,
      outputDisplayArea, requests, pending, htmlOutput, uploadFiles, race, changes>>

\* The script of the Ace editor has loaded.
AceLoaded ==
    /\ ~window.ace
    /\ window' = [window EXCEPT !.ace = TRUE]
    /\ pc' = "ace"
    /\ UNCHANGED <<calls, document, runVars>>

\* A call of initAceInteractive (interactive) or initAceHighlighting.
InitAce(interactive) ==
    /\ Len(calls) < MaxCalls
    /\ \E after \in { initAce(window, document, interactive) } :
           /\ window' = after.window
           /\ document' = after.document
           /\ calls' = Append(calls, [isInteractive |-> interactive, at |-> after.at])
    /\ pc' = "initAce"
    /\ UNCHANGED runVars

\* The timer of a waiting call fires: the call tests window.ace again.
Timeout(k) ==
    /\ k \in 1..Len(calls)
    /\ calls[k].at = "wait"
    /\ IF ~window.ace
       THEN UNCHANGED <<window, document, calls>>
       ELSE \E after \in { applyAndHook(window, document, calls[k].isInteractive) } :
                /\ window' = after.window
                /\ document' = after.document
                /\ calls' = [calls EXCEPT ![k].at = after.at]
    /\ pc' = "setTimeout"
    /\ UNCHANGED runVars

\* A call of the hook window.applyAceInteractive / window.applyAceHighlighting.
Hook(interactive) ==
    /\ Len(calls) < MaxCalls
    /\ IF interactive THEN window.applyAceInteractive ELSE window.applyAceHighlighting
    /\ document' = apply(document, interactive)
    /\ calls' = Append(calls, [isInteractive |-> interactive, at |-> "hook"])
    /\ pc' = "hook"
    /\ UNCHANGED <<window, runVars>>

NextPage ==
    \/ AceLoaded
    \/ \E interactive \in BOOLEAN : InitAce(interactive)
    \/ \E k \in 1..MaxCalls : Timeout(k)
    \/ \E interactive \in BOOLEAN : Hook(interactive)

SpecPage == InitPage /\ [][NextPage]_vars


\* The calls of a feature's init function, and those among them that have
\* made the initial page-wide application.
InitCalls(interactive) ==
    { k \in 1..Len(calls) : calls[k].isInteractive = interactive /\ calls[k].at # "hook" }
InitialApplications(interactive) ==
    { k \in InitCalls(interactive) : calls[k].at = "applied" }

\* C14: for each of initAceInteractive and initAceHighlighting, over any
\* number and interleaving of calls, the initial page-wide application of
\* that feature runs at most once and never before window.ace is available;
\* the two run-once flags are independent: a feature's flag is set exactly
\* when that feature's init function has been called, and once window.ace is
\* available and no call waits, a feature that was initialised has been
\* applied whatever was done for the other feature.
C14_InitialApplicationOnce ==
    \A interactive \in BOOLEAN :
        /\ Cardinality(InitialApplications(interactive)) <= 1
        /\ InitialApplications(interactive) # {} => window.ace
        /\ runOnceDone(window, interactive) <=> InitCalls(interactive) # {}
        /\ (IF interactive THEN window.applyAceInteractive
            ELSE window.applyAceHighlighting) <=> InitialApplications(interactive) # {}
        /\ (window.ace /\ \A k \in 1..Len(calls) : calls[k].at # "wait") =>
              (InitCalls(interactive) # {} =>
                   Cardinality(InitialApplications(interactive)) = 1)

\* Two calls of initAceInteractive and one of initAceHighlighting, made
\* before Ace was loaded: each feature has been applied by its first call.
C14_Witness ==
    /\ window.ace
    /\ Len(calls) = 3
    /\ calls[1] = [isInteractive |-> TRUE, at |-> "applied"]
    /\ calls[2] = [isInteractive |-> FALSE, at |-> "applied"]
    /\ calls[3] = [isInteractive |-> TRUE, at |-> "returned"]
    /\ pc = "setTimeout"


\* The PRE of a marked code block: the marked element itself, or the parent
\* of a marked CODE element.
BlockOf(element) ==
    IF element.nodeName = "CODE" THEN element.parentNode ELSE element

\* C15: over any sequence of page-wide apply invocations (the initial one
\* and any number of calls of the hooks), every marked code block, whether
\* the marked element is the PRE itself or a CODE child of a PRE, gets an
\* editor and a run button attached at most once.
C15_AttachedAtMostOnce ==
    \A k \in DOMAIN document :
        /\ BlockOf(document[k]).editors <= 1
        /\ BlockOf(document[k]).buttons <= 1


(***************************************************************************)
(* Specification of the file upload: the change handler that               *)
(* setupFileHandler registers, the reads it awaits and a click that sends   *)
(* the files.                                                              *)
(***************************************************************************)
MaxChanges == 2

\* The files the user can select: a name and the text the read gives.
File(name, contents) == [name |-> name, contents |-> contents]
Selections ==
    { <<>>,
      <<File("f", <<"1">>)>>,
      <<File("g", <<"1">>)>>,
      <<File("f", <<"2">>), File("g", <<"2">>)>> }

S_uploadId == <<"u">>

InitUpload ==
    /\ pc = "addUi"
    /\ pre \in { "file-upload-id" :> S_uploadId,
                 "file-upload-id" :> S_uploadId @@ "file-taids" :> S_fileTaids }
    /\ isInteractive = TRUE
    /\ uiParameters = getUiParameters(pre, defaultParamsInteractive)
    /\ response = NoResponse
    /\ maxLen = IntV(MAX_OUTPUT_LENGTH)
    /\ error = ""
    /\ text = <<>>
    /\ langString = ""
    /\ outputDisplayArea = HiddenArea
    /\ requests = <<>>
    /\ pending = <<>>
    /\ htmlOutput = FALSE
    /\ uploadFiles = <<>>
    /\ IdlePage

\* The change event of the file input: uploadFiles is emptied and the
\* handler awaits the read of the first file of the selection.
Change(files) ==
    /\ Len(changes) < MaxChanges
    /\ Truthy(uiParameters["file-upload-id"])
    /\ uploadFiles' = <<>>
    /\ changes' = Append(changes, [files |-> files, read |-> 0, failed |-> FALSE])
    /\ pc' = "change"
    /\ UNCHANGED <<pre, isInteractive, uiParameters, response, maxLen, error, text,
                   langString, outputDisplayArea, requests, pending, htmlOutput,
                   window, calls, document, race>>

\* The files a handler has still to read.
Reading(k) ==
    /\ k \in 1..Len(changes)
    /\ ~changes[k].failed
    /\ changes[k].read < Len(changes[k].files)

\* The read the k-th handler awaits ends: the handler stores the contents
\* under the file's name and goes on to the next file.
Onload(k) ==
    /\ Reading(k)
    /\ LET file == changes[k].files[changes[k].read + 1]
       IN  uploadFiles' = (file.name :> file.contents) @@ uploadFiles
    /\ changes' = [changes EXCEPT ![k].read = @ + 1]
    /\ pc' = "onload"
    /\ UNCHANGED <<pre, isInteractive, uiParameters, response, maxLen, error, text,
                   langString, outputDisplayArea, requests, pending, htmlOutput,
                   window, calls, document, race>>

\* The read the k-th handler awaits fails: the promise is rejected and the
\* handler ends there.
Onerror(k) ==
    /\ Reading(k)
    /\ changes' = [changes EXCEPT ![k].failed = TRUE]
    /\ pc' = "onerror"
    /\ UNCHANGED <<pre, isInteractive, uiParameters, response, maxLen, error, text,
                   langString, outputDisplayArea, requests, pending, htmlOutput,
                   uploadFiles, window, calls, document, race>>

NextUpload ==
    \/ \E files \in Selections : Change(files)
    \/ \E k \in 1..MaxChanges : Onload(k)
    \/ \E k \in 1..MaxChanges : Onerror(k)
    \/ \E code \in Codes, elementValue \in ElementValues : Click(code, elementValue)

SpecUpload == InitUpload /\ [][NextUpload]_vars

\* Every read of every selection has ended well, and the files of the most
\* recent selection as a map from name to contents.
AllReadsCompleted ==
    /\ changes # <<>>
    /\ \A k \in 1..Len(changes) :
          ~changes[k].failed /\ changes[k].read = Len(changes[k].files)
LastSelection ==
    LET files == changes[Len(changes)].files
    IN  [name \in { files[i].name : i \in 1..Len(files) } |->
            (CHOOSE i \in 1..Len(files) : files[i].name = name)]
LastSelectionContents ==
    [name \in DOMAIN LastSelection |->
        changes[Len(changes)].files[LastSelection[name]].contents]

====
